---- MODULE Spec2Model ----
(***************************************************************************)
(* ResolutaLeech download orchestration: DownloadManager (manager.py), its *)
(* worker threads and the stream backends (direct.py, mega.py, base.py).   *)
(*                                                                         *)
(* Python objects are modelled as a heap: every add_download call creates  *)
(* one record dict (recs[s], s the call's slot) and one worker thread; the *)
(* registry self.downloads maps an id token to the dict stored under it.   *)
(* Workers look their record up by id on every access, as the code does.   *)
(***************************************************************************)
EXTENDS Integers, Sequences, FiniteSets, TLC

\* ---------------------------------------------------------------- bounds
MaxAdds == 2      \* add_download calls (= record dicts, = worker threads)
NumIds == 2       \* id tokens uuid4()[:8] can return in the model
MaxChunks == 1    \* chunks a response body can have, at most
MaxMegaCalls == 2 \* direct calls of MegaDownloader.download
MaxStreamCalls == 2 \* concurrent calls of _download_and_decrypt
MaxBody == 3      \* bytes of an encrypted body, at most

Slots == 1..MaxAdds
Ids == 1..NumIds
NoId == 0
NoSlot == 0

\* ---------------------------------------------------------------- values
None == "None"                 \* Python None
Statuses == {"starting", "downloading", "completed", "error", "cancelled"}
Terminal == {"completed", "error", "cancelled"}

\* sizes and byte counts are in chunks
\* URL classes by the patterns they match (mega.py:23-29, direct.py:14-16):
\*   "mega"  https://mega.nz/file/...   matches MEGA and Direct patterns
\*   "http"  any other http(s) URL      matches Direct only
\*   "other" no http(s) scheme          matches no pattern
Urls == {"mega", "http", "other"}

\* self.downloaders, in registration order (manager.py:26-29)
downloaders == <<"MEGA", "Direct">>
Backends == {"MEGA", "Direct"}

HOST_NAME(b) == IF b = "MEGA" THEN "MEGA.nz" ELSE "Direct Link"

can_handle(b, u) ==
    IF b = "MEGA" THEN u = "mega" ELSE u \in {"mega", "http"}

\* first backend of the list that can handle the URL, else None
RECURSIVE FirstMatch(_, _)
FirstMatch(i, u) ==
    IF i > Len(downloaders) THEN None
    ELSE IF can_handle(downloaders[i], u) THEN downloaders[i]
    ELSE FirstMatch(i + 1, u)

get_downloader(u) == FirstMatch(1, u)

\* add_download falling back to the first backend of the list
ChooseDownloaderFirst(u) ==
    IF get_downloader(u) = None THEN downloaders[1]
    ELSE get_downloader(u)

\* the backend add_download binds: fallback self.downloaders[-1]
ChooseDownloader(u) ==
    IF get_downloader(u) = None THEN downloaders[Len(downloaders)]
    ELSE get_downloader(u)

\* ------------------------------------------------------- file names
\* Every download of the model resolves to the same sanitized filename, the
\* case in which get_unique_filepath has to tell downloads apart.
BaseName == "file"
BaseExt == ".bin"
download_folder == "downloads/"

Join(fname) == download_folder \o fname

\* f"{name}_{counter}{ext}"
Numbered(counter) == BaseName \o "_" \o ToString(counter) \o BaseExt

\* the while loop of get_unique_filepath: first counter whose path is free
RECURSIVE UniqueLoop(_, _)
UniqueLoop(existing, counter) ==
    IF Join(Numbered(counter)) \in existing
    THEN UniqueLoop(existing, counter + 1)
    ELSE Numbered(counter)

\* get_unique_filepath(filename), given the set of existing paths; the
\* result is the file name inside download_folder
get_unique_filepath(existing) ==
    IF Join(BaseName \o BaseExt) \notin existing
    THEN BaseName \o BaseExt
    ELSE UniqueLoop(existing, 1)

\* ------------------------------------------------------- progress
\* round(x, 1) of x = downloaded / total * 100, kept in tenths of a percent
\* (round half to even)
RoundDiv(n, d) ==
    LET q == n \div d
        r == n % d
    IN  IF 2 * r < d THEN q
        ELSE IF 2 * r > d THEN q + 1
        ELSE IF q % 2 = 0 THEN q ELSE q + 1

Progress(downloaded, total) ==
    IF total > 0 THEN RoundDiv(downloaded * 1000, total) ELSE 0

Hundred == 1000   \* 'progress': 100, in tenths of a percent

\* speed = downloaded / elapsed if elapsed > 0 else 0
Speed(downloaded, elapsed) ==
    IF elapsed > 0 THEN downloaded \div elapsed ELSE 0

\* ------------------------------------------------------- error texts
CancelText == "Download cancelado"
\* failures of the request stage of DirectDownloader.download; "" is
\* str(e) of the generic handler for an exception raised without a message
DirectRequestErrors == {"Erro HTTP", ""}
\* failures while the body is streamed
StreamErrors == {"Erro de conexao", ""}
\* failures of MegaDownloader.download before the body request
MegaStageErrors == {"Arquivo nao encontrado"}
\* str(e) of an exception that escapes the backend call into the worker
RaisedTexts == {"boom", ""}

\* ------------------------------------------------------- MEGA inputs
\* direct calls of MegaDownloader.download on the one instance of the manager
MegaCallIds == 1..MaxMegaCalls

\* the stages of MegaDownloader.download, in the order of its statements
Stages == <<"parse", "rpc", "key", "attr", "stream", "finalize">>

\* the texts of the failure results of MegaDownloader.download
InvalidUrlText == "URL invalida - nao foi possivel extrair ID e chave"
NotFoundText == "Arquivo nao encontrado ou indisponivel"
InvalidKeyText == "Chave de decriptacao invalida"
NoUrlText == "Limite de transferencia atingido ou arquivo indisponivel"
Http509Text == "Limite de transferencia atingido"
QuotaText == "Limite de transferencia do MEGA atingido. Tente mais tarde."

\* the shapes of a URL that reaches the backend: mega.nz/file/ID#KEY,
\* mega.nz/#!ID!KEY, and a MEGA URL with neither (a folder link)
MegaUrls == {"file", "legacy", "folder"}

\* _parse_url: both file shapes give (file_id, file_key), else (None, None)
parse_url(u) == IF u \in {"file", "legacy"} THEN "id" ELSE None

\* error codes the host answers with: -3 and -17 (transfer quota)
HostCodes == {0 - 3, 0 - 17}

\* what requests.post(...).json() gives _get_file_info_api: the request or
\* the JSON parser raises, an empty list, a list whose first element is an
\* integer, or one whose first element is the metadata object: its
\* attribute blob 'at' decrypts to a name, to no name, or is absent; its
\* download URL 'g' is present or not
RpcResponses ==
    {[t |-> "exc"], [t |-> "empty"]}
       \cup {[t |-> "int", v |-> n] : n \in HostCodes}
       \cup {[t |-> "obj", at |-> a, g |-> b] :
                a \in {"name", "garbage", "missing"}, b \in BOOLEAN}

\* the value _get_file_info_api returns for a response (mega.py:136-144)
NoInfo == [t |-> None]

file_info_of(resp) ==
    IF resp.t = "exc" THEN NoInfo
    ELSE IF resp.t = "empty" THEN NoInfo
    ELSE IF resp.t = "int" /\ resp.v < 0 THEN NoInfo
    ELSE resp

\* lengths, in characters, of the key token of the URL
KeyTokenLens == {22, 41, 43}

\* _base64_to_bytes on a token of n characters: b64decode raises when n is
\* 1 more than a multiple of 4, else len is the length of the bytes returned
base64_to_bytes(n) ==
    IF n % 4 = 1 THEN [raised |-> TRUE, len |-> 0]
    ELSE [raised |-> FALSE, len |-> (n * 3) \div 4]

\* the texts of exceptions, as lower-case words
Base64Message == <<"invalid", "base64-encoded", "string">>
KeyErrorMessage == <<"'at'">>
\* exceptions of the body request, of open() and of the chunk loop
BodyMessages == {<<"connection", "reset">>, <<"disk", "quota", "exceeded">>}

\* str(e)
RECURSIVE Text(_)
Text(m) ==
    IF Len(m) = 0 THEN ""
    ELSE IF Len(m) = 1 THEN m[1]
    ELSE m[1] \o " " \o Text(Tail(m))

\* mega.py:105: 'quota' or 'limit' in the lower-cased text, or '-17'
MentionsQuota(m) == \E k \in DOMAIN m : m[k] \in {"quota", "limit", "-17"}

\* HTTP status codes of a failed body request
HttpErrors == {509, 500}

\* ------------------------------------------------------- body cipher
\* concurrent calls of _download_and_decrypt
StreamCalls == 1..MaxStreamCalls

\* bytes are modelled with one bit
Bytes == {0, 1}
Xor(a, b) == (a + b) % 2

\* the bodies a server can send: every byte string of at most MaxBody bytes
Bodies == UNION {[1..n -> Bytes] : n \in 0..MaxBody}

\* AES keys
CipherKeys == {0, 1}

\* byte pos (from 0) of the counter-mode keystream of a key.  The cipher is
\* a fixed function of key and position that repeats with neither
KeyStream(k, pos) == (k + pos + (pos \div 2)) % 2

\* cipher.decrypt(chunk) of a cipher object that has consumed pos bytes
Decrypt(k, pos, chunk) ==
    [i \in 1..Len(chunk) |-> Xor(chunk[i], KeyStream(k, pos + i - 1))]

\* ------------------------------------------------------- key derivation
\* bitwise exclusive or of two numbers of n bits
RECURSIVE XorBits(_, _, _)
XorBits(a, b, n) ==
    IF n = 0 THEN 0
    ELSE (((a % 2) + (b % 2)) % 2) + 2 * XorBits(a \div 2, b \div 2, n - 1)

\* a 32-bit word is kept as its two 16-bit halves
\* struct.unpack('>I', b): the word of four bytes, most significant first
WordOf(b) == [hi |-> b[1] * 256 + b[2], lo |-> b[3] * 256 + b[4]]

\* struct.pack('>I', w)
BytesOf(w) == <<w.hi \div 256, w.hi % 256, w.lo \div 256, w.lo % 256>>

\* w ^ v on 32-bit words
XorWord(w, v) ==
    [hi |-> XorBits(w.hi, v.hi, 16), lo |-> XorBits(w.lo, v.lo, 16)]

\* struct.unpack('>IIIIIIII', key)
unpack_words(key) == [j \in 1..8 |-> WordOf(SubSeq(key, 4 * j - 3, 4 * j))]

\* struct.pack('>I...', *ws)
RECURSIVE pack_words(_)
pack_words(ws) ==
    IF ws = << >> THEN << >> ELSE BytesOf(Head(ws)) \o pack_words(Tail(ws))

\* a derivation that pairs neighbouring words
aes_key_of_neighbours(key) ==
    LET key_array == unpack_words(key) IN
    pack_words([j \in 1..4 |->
                  XorWord(key_array[2 * j - 1], key_array[2 * j])])

\* mega.py:62-68: aes_key
aes_key_of(key) ==
    LET key_array == unpack_words(key) IN
    pack_words([j \in 1..4 |-> XorWord(key_array[j], key_array[j + 4])])

\* mega.py:69: iv
iv_of(key) ==
    LET key_array == unpack_words(key) IN
    pack_words(<<key_array[5], key_array[6]>>) \o [i \in 1..8 |-> 0]

\* int.from_bytes(iv, 'big'): the number, as its base-256 digits without
\* leading zeros
RECURSIVE from_bytes(_)
from_bytes(b) ==
    IF b = << >> THEN << >>
    ELSE IF Head(b) = 0 THEN from_bytes(Tail(b))
    ELSE b

\* the first counter block of Counter.new(128, initial_value=n): n as 16
\* bytes, most significant first
counter_block(n) == [i \in 1..(16 - Len(n)) |-> 0] \o n

\* the 32-bit words the raw keys of the model are made of, as bytes
WordSamples == {<<0, 0, 0, 0>>, <<1, 2, 3, 4>>, <<255, 255, 255, 255>>}

\* the raw keys: 32 bytes
RawKeys ==
    {ws[1] \o ws[2] \o ws[3] \o ws[4] \o ws[5] \o ws[6] \o ws[7] \o ws[8] :
        ws \in [1..8 -> WordSamples]}

\* ------------------------------------------------------- file attributes
\* a text is a sequence of characters; "q" is the double quote, "0" the NUL
\* byte, "MEGA" the four bytes of the tag
MaxName == 2
MaxTail == 1

NameChars == {"a", "{", "}"}

SeqsUpTo(S, n) == UNION {[1..k -> S] : k \in 0..n}

\* the decrypted attribute block: the tag, the JSON text of an object with
\* the one string field n, trailing bytes, NUL padding
Plaintext(tag, n, tail, pad) ==
    <<tag>> \o <<"{", "q", "n", "q", ":", "q">> \o n \o <<"q", "}">>
            \o tail \o [i \in 1..pad |-> "0"]

\* decrypted.rstrip(b'\x00')
RECURSIVE rstrip(_)
rstrip(t) ==
    IF t # << >> /\ t[Len(t)] = "0" THEN rstrip(SubSeq(t, 1, Len(t) - 1))
    ELSE t

\* mega.py:174-182: the loop over json_str; i is the index of the next
\* character (from 1), the value is end_pos
RECURSIVE find_end(_, _, _)
find_end(json_str, i, brace_count) ==
    IF i > Len(json_str) THEN 0
    ELSE IF json_str[i] = "{" THEN find_end(json_str, i + 1, brace_count + 1)
    ELSE IF json_str[i] = "}"
         THEN IF brace_count - 1 = 0 THEN i
              ELSE find_end(json_str, i + 1, brace_count - 1)
    ELSE find_end(json_str, i + 1, brace_count)

\* json.loads on a text, followed by attr.get('n', ''): the text is an
\* object with the string field n, or the parser raises
json_loads(t) ==
    IF /\ Len(t) >= 8
       /\ SubSeq(t, 1, 6) = <<"{", "q", "n", "q", ":", "q">>
       /\ SubSeq(t, Len(t) - 1, Len(t)) = <<"q", "}">>
       /\ \A k \in 7..(Len(t) - 2) : t[k] # "q"
    THEN [raised |-> FALSE, n |-> SubSeq(t, 7, Len(t) - 2)]
    ELSE [raised |-> TRUE, n |-> << >>]

NoFilename == [found |-> FALSE, n |-> << >>]

\* mega.py:155-190 from the plaintext on
decrypt_attr(plain) ==
    LET decrypted == rstrip(plain) IN
    IF decrypted # << >> /\ Head(decrypted) = "MEGA"
    THEN LET json_str == Tail(decrypted)
             end_pos == find_end(json_str, 1, 0)
         IN  IF end_pos > 0
             THEN LET attr == json_loads(SubSeq(json_str, 1, end_pos))
                  IN  IF attr.raised THEN NoFilename
                      ELSE [found |-> TRUE, n |-> attr.n]
             ELSE NoFilename
    ELSE NoFilename

\* mega.py:73-75: the name download goes on with
filename_of(r) ==
    IF r.found /\ r.n # << >> THEN r.n ELSE <<"mega_download_", "id">>

\* ------------------------------------------------------- state
VARIABLES
    downloads,   \* self.downloads: id -> the record dict stored under it
    recs,        \* the record dicts, by the slot of the call that made them
    threads,     \* self.threads: id -> worker thread
    lock,        \* self.lock: NoSlot when free, else the thread inside
    wk,          \* per slot: the add_download call and its worker thread
    cancelled,   \* the cancelled flag of each backend instance
    files,       \* the download folder: path -> [ino, size]
    rd,          \* an API caller: the dicts get_status / list_all handed to
                 \* it (by slot), each with the values it had on return
    ret,         \* an API caller: the id and the return value of its last
                 \* cancel call
    mg,          \* per direct call of MegaDownloader.download: its frame
    seq_no,      \* self.seq_no of the MegaDownloader instance, counted
                 \* from the value __init__ gave it
    rpcs,        \* the sequence numbers of the RPCs sent so far, in the
                 \* order they were sent
    cs,          \* per call of _download_and_decrypt: the body, the cipher
                 \* object and the bytes written
    kd,          \* a raw key and the cipher key and counter block derived
                 \* from it
    da           \* an attribute plaintext and what _decrypt_attr returns

megaVars == <<mg, seq_no, rpcs>>

pureVars == <<cs, kd, da>>

vars ==
    <<downloads, recs, threads, lock, wk, cancelled, files, rd, ret, megaVars,
      pureVars>>

NoRec == [status |-> None]

\* download_info of add_download
NewRecord(id, u, b) ==
    [id |-> id, url |-> u, status |-> "starting", progress |-> 0,
     downloaded |-> 0, total |-> 0, speed |-> 0, filename |-> "",
     filepath |-> "", host |-> HOST_NAME(b), error |-> None,
     started_at |-> "t", completed_at |-> None]

NoResult == [kind |-> None]
IdleWorker ==
    [pc |-> "idle", id |-> NoId, url |-> None, bk |-> None, fname |-> "",
     ino |-> NoSlot, dl |-> 0, tot |-> 0, res |-> NoResult]

\* the frame of a MegaDownloader.download call: position, the value loaded
\* by "self.seq_no += 1", the RPC response and file_info, the stages entered
\* and those that failed, the body request's outcome, the target file, the
\* bytes written, the condition that ended the call, the length of the key
\* token once the key stage has read it (0 before) and the result
\* the value of 'downloaded' a sink that was never invoked has seen
NeverReported == 0 - 1

\* rep: the 'downloaded' argument of the last invocation of the callback
IdleCall ==
    [pc |-> "idle", tmp |-> 0, rpc |-> NoInfo, info |-> NoInfo, log |-> << >>,
     bad |-> {}, fname |-> "", ino |-> NoSlot, dl |-> 0, cond |-> None,
     key |-> 0, rep |-> NeverReported, res |-> NoResult]

InitProgram ==
    /\ downloads = [i \in {} |-> NoSlot]
    /\ recs = [s \in Slots |-> NoRec]
    /\ threads = [i \in {} |-> NoSlot]
    /\ lock = NoSlot
    /\ wk = [s \in Slots |-> IdleWorker]
    /\ cancelled = [b \in Backends |-> FALSE]
    /\ files = [p \in {} |-> 0]
    /\ rd = [r \in {} |-> NoRec]
    /\ ret = None
    /\ mg = [c \in MegaCallIds |-> IdleCall]
    /\ seq_no = 0
    /\ rpcs = << >>

\* a call of _download_and_decrypt that has not begun
IdleStream ==
    [pc |-> "idle", key |-> 0, body |-> << >>, rest |-> << >>, pos |-> 0,
     out |-> << >>]

NoKey == [pc |-> "idle"]
NoAttr == [pc |-> "idle"]

Init ==
    /\ InitProgram
    /\ cs = [c \in StreamCalls |-> IdleStream]
    /\ kd = NoKey
    /\ da = NoAttr

\* the record dict currently stored under id i
Rec(i) == recs[downloads[i]]

\* f with key k set to v (dict item assignment)
Put(f, k, v) == [x \in DOMAIN f \cup {k} |-> IF x = k THEN v ELSE f[x]]

\* f without key k (os.remove)
Drop(f, k) == [x \in DOMAIN f \ {k} |-> f[x]]

Truthy(x) == x \notin {None, ""}

Max(a, b) == IF a > b THEN a ELSE b

\* ------------------------------------------------------- add_download
\* manager.py:33-60: draw the id token, pick the backend, build the record
\* and store it under the lock.  uuid4()[:8] is a random draw: a token
\* already in the registry may come out, or a new one (tokens are opaque, so
\* the smallest unused one stands for every new token).
\* add_download without the store into self.downloads
AddInsertUnregistered(s, u, i) ==
    /\ wk[s].pc = "idle"
    /\ s > 1 => wk[s - 1].pc # "idle"
    /\ lock = NoSlot
    /\ i \in DOMAIN downloads \/ \A j \in Ids \ DOMAIN downloads : i <= j
    /\ recs' = [recs EXCEPT ![s] = NewRecord(i, u, ChooseDownloader(u))]
    /\ wk' = [wk EXCEPT ![s] = [@ EXCEPT !.pc = "spawn", !.id = i, !.url = u,
                                         !.bk = ChooseDownloader(u)]]
    /\ UNCHANGED <<downloads, threads, lock, cancelled, files, rd, ret, megaVars, pureVars>>

AddInsert(s, u, i) ==
    /\ wk[s].pc = "idle"
    /\ s > 1 => wk[s - 1].pc # "idle"
    /\ lock = NoSlot
    /\ i \in DOMAIN downloads \/ \A j \in Ids \ DOMAIN downloads : i <= j
    /\ recs' = [recs EXCEPT ![s] = NewRecord(i, u, ChooseDownloader(u))]
    /\ downloads' = Put(downloads, i, s)
    /\ wk' = [wk EXCEPT ![s] = [@ EXCEPT !.pc = "spawn", !.id = i, !.url = u,
                                         !.bk = ChooseDownloader(u)]]
    /\ UNCHANGED <<threads, lock, cancelled, files, rd, ret, megaVars, pureVars>>

\* manager.py:63-71: register and start the worker thread, return the id
AddSpawn(s) ==
    /\ wk[s].pc = "spawn"
    /\ threads' = Put(threads, wk[s].id, s)
    /\ wk' = [wk EXCEPT ![s].pc = "start"]
    /\ UNCHANGED <<downloads, recs, lock, cancelled, files, rd, ret, megaVars, pureVars>>

\* ------------------------------------------------------- _update_status
\* manager.py:114-115: the status assignment of _update_status
\* _update_status with the status assignment under "if error:" as well
WriteStatusIfError(rs, i, status, error) ==
    IF i \in DOMAIN downloads /\ Truthy(error)
    THEN [rs EXCEPT ![downloads[i]].status = status]
    ELSE rs

\* _update_status that leaves a cancelled record alone
WriteStatusKeepCancelled(rs, i, status, error) ==
    IF i \in DOMAIN downloads /\ rs[downloads[i]].status # "cancelled"
    THEN [rs EXCEPT ![downloads[i]].status = status]
    ELSE rs

WriteStatus(rs, i, status, error) ==
    IF i \in DOMAIN downloads
    THEN [rs EXCEPT ![downloads[i]].status = status]
    ELSE rs

\* manager.py:116-117: the error assignment of _update_status
WriteError(rs, i, error) ==
    IF i \in DOMAIN downloads /\ Truthy(error)
    THEN [rs EXCEPT ![downloads[i]].error = error]
    ELSE rs

\* ------------------------------------------------------- worker
\* manager.py:76: _update_status(download_id, 'downloading')
WStart(s) ==
    /\ wk[s].pc = "start"
    /\ lock = NoSlot
    /\ recs' = WriteStatus(recs, wk[s].id, "downloading", None)
    /\ wk' = [wk EXCEPT ![s].pc = "call"]
    /\ UNCHANGED <<downloads, threads, lock, cancelled, files, rd, ret, megaVars, pureVars>>

\* the worker's frame once downloader.download has returned or raised: the
\* locals of the call are gone, the result stays
Returned(w, res) ==
    [w EXCEPT !.pc = "result", !.res = res, !.fname = "", !.ino = NoSlot,
              !.dl = 0, !.tot = 0]

\* the worker's frame once _download_worker has returned
Finished(w) == [w EXCEPT !.pc = "done", !.res = NoResult]

Fail(text) == [kind |-> "fail", error |-> text]
Raised(text) == [kind |-> "raise", error |-> text]
Success(fname, size) ==
    [kind |-> "ok", filepath |-> Join(fname), filename |-> fname, size |-> size]

\* direct.py:27-48: reset the flag, send the request, read the headers,
\* resolve the target path
DirectCall(s) ==
    /\ wk[s].pc = "call"
    /\ wk[s].bk = "Direct"
    /\ cancelled' = [cancelled EXCEPT !["Direct"] = FALSE]
    /\ \/ \E t \in DirectRequestErrors :
            wk' = [wk EXCEPT ![s] = Returned(@, Fail(t))]
       \/ /\ wk[s].url = "other"
          /\ wk' = [wk EXCEPT ![s] = Returned(@, Fail("Erro de conexao"))]
       \/ /\ wk[s].url # "other"
          /\ \E total_size \in 0..MaxChunks :
                wk' = [wk EXCEPT ![s].pc = "open", ![s].tot = total_size,
                                 ![s].fname = get_unique_filepath(DOMAIN files)]
    /\ UNCHANGED <<downloads, recs, threads, lock, files, rd, ret, megaVars, pureVars>>

\* mega.py:42-86: reset the flag, run the stages up to the target path
MegaCall(s) ==
    /\ wk[s].pc = "call"
    /\ wk[s].bk = "MEGA"
    /\ cancelled' = [cancelled EXCEPT !["MEGA"] = FALSE]
    /\ \/ \E t \in MegaStageErrors :
            wk' = [wk EXCEPT ![s] = Returned(@, Fail(t))]
       \/ \E file_size \in 0..MaxChunks :
            wk' = [wk EXCEPT ![s].pc = "open", ![s].tot = file_size,
                             ![s].fname = get_unique_filepath(DOMAIN files)]
    /\ UNCHANGED <<downloads, recs, threads, lock, files, rd, ret, megaVars, pureVars>>

\* an exception that escapes downloader.download and reaches the handler
\* of the worker (manager.py:108): one raised outside the try blocks of the
\* backends (direct.py:27-28, mega.py:42-43)
WRaise(s) ==
    /\ wk[s].pc = "call"
    /\ \E t \in RaisedTexts :
          wk' = [wk EXCEPT ![s] = Returned(@, Raised(t))]
    /\ UNCHANGED <<downloads, recs, threads, lock, cancelled, files, rd, ret, megaVars, pureVars>>

\* open(filepath, 'wb'): create the file, or truncate the one at the path
\* (direct.py:55, mega.py:207)
WOpen(s) ==
    /\ wk[s].pc = "open"
    /\ LET p == Join(wk[s].fname)
           f == IF p \in DOMAIN files THEN [files[p] EXCEPT !.size = 0]
                ELSE [ino |-> s, size |-> 0]
       IN  /\ files' = Put(files, p, f)
           /\ wk' = [wk EXCEPT ![s].pc = "stream", ![s].ino = f.ino, ![s].dl = 0]
    /\ UNCHANGED <<downloads, recs, threads, lock, cancelled, rd, ret, megaVars, pureVars>>

\* mega.py:204-205 and 229-234: the body request of _download_and_decrypt
\* fails, before the file is opened
MegaRequestError(s) ==
    /\ wk[s].pc = "open"
    /\ wk[s].bk = "MEGA"
    /\ wk' = [wk EXCEPT ![s] = Returned(@, Fail("Erro HTTP"))]
    /\ UNCHANGED <<downloads, recs, threads, lock, cancelled, files, rd, ret, megaVars, pureVars>>

\* a chunk loop in which only the first worker looks at the flag
WChunkFirstOnly(s) ==
    /\ wk[s].pc = "stream"
    /\ wk[s].dl < MaxChunks
    /\ LET p == Join(wk[s].fname) IN
       IF cancelled[wk[s].bk] /\ s = 1
       THEN /\ files' = IF p \in DOMAIN files THEN Drop(files, p) ELSE files
            /\ wk' = [wk EXCEPT ![s] = Returned(@, Fail(CancelText))]
       ELSE /\ files' = IF p \in DOMAIN files /\ files[p].ino = wk[s].ino
                        THEN [files EXCEPT ![p].size = Max(@, wk[s].dl + 1)]
                        ELSE files
            /\ \E cb \in BOOLEAN :
                 /\ wk[s].bk = "MEGA" => cb
                 /\ wk' = [wk EXCEPT ![s].pc = IF cb THEN "cb" ELSE "stream",
                                     ![s].dl = @ + 1]
    /\ UNCHANGED <<downloads, recs, threads, lock, cancelled, rd, ret, megaVars, pureVars>>

\* a chunk loop whose cancel branch returns without removing the file
WChunkKeepFile(s) ==
    /\ wk[s].pc = "stream"
    /\ wk[s].dl < MaxChunks
    /\ LET p == Join(wk[s].fname) IN
       IF cancelled[wk[s].bk]
       THEN /\ files' = files
            /\ wk' = [wk EXCEPT ![s] = Returned(@, Fail(CancelText))]
       ELSE /\ files' = IF p \in DOMAIN files /\ files[p].ino = wk[s].ino
                        THEN [files EXCEPT ![p].size = Max(@, wk[s].dl + 1)]
                        ELSE files
            /\ \E cb \in BOOLEAN :
                 /\ wk[s].bk = "MEGA" => cb
                 /\ wk' = [wk EXCEPT ![s].pc = IF cb THEN "cb" ELSE "stream",
                                     ![s].dl = @ + 1]
    /\ UNCHANGED <<downloads, recs, threads, lock, cancelled, rd, ret, megaVars, pureVars>>

\* one iteration of the chunk loop (direct.py:56-73, mega.py:208-225): the
\* body yields one more chunk.  The length of the body is the server's
\* choice and need not agree with the size it declared.
WChunk(s) ==
    /\ wk[s].pc = "stream"
    /\ wk[s].dl < MaxChunks
    /\ LET p == Join(wk[s].fname) IN
       IF cancelled[wk[s].bk]
       THEN /\ files' = IF p \in DOMAIN files THEN Drop(files, p) ELSE files
            /\ wk' = [wk EXCEPT ![s] = Returned(@, Fail(CancelText))]
       ELSE /\ files' = IF p \in DOMAIN files /\ files[p].ino = wk[s].ino
                        THEN [files EXCEPT ![p].size = Max(@, wk[s].dl + 1)]
                        ELSE files
            /\ \E cb \in BOOLEAN :
                 /\ wk[s].bk = "MEGA" => cb
                 /\ wk' = [wk EXCEPT ![s].pc = IF cb THEN "cb" ELSE "stream",
                                     ![s].dl = @ + 1]
    /\ UNCHANGED <<downloads, recs, threads, lock, cancelled, rd, ret, megaVars, pureVars>>

\* the body stream or the file write raises inside the loop; the handlers of
\* direct.py:88-95 and mega.py:229-234 return a failure
WStreamError(s) ==
    /\ wk[s].pc = "stream"
    /\ \E t \in StreamErrors :
          wk' = [wk EXCEPT ![s] = Returned(@, Fail(t))]
    /\ UNCHANGED <<downloads, recs, threads, lock, cancelled, files, rd, ret, megaVars, pureVars>>

\* manager.py:79-88: progress_callback(downloaded, total, speed)
\* a sink that also sets the status back to downloading
MergeSetStatus(rs, i, downloaded, total, speed) ==
    IF i \in DOMAIN downloads
    THEN [rs EXCEPT ![downloads[i]] =
             [@ EXCEPT !.downloaded = downloaded, !.total = total,
                       !.progress = Progress(downloaded, total),
                       !.speed = speed, !.status = "downloading"]]
    ELSE rs

Merge(rs, i, downloaded, total, speed) ==
    IF i \in DOMAIN downloads
    THEN [rs EXCEPT ![downloads[i]] =
             [@ EXCEPT !.downloaded = downloaded, !.total = total,
                       !.progress = Progress(downloaded, total),
                       !.speed = speed]]
    ELSE rs

\* time.time() - start_time, in clock ticks
Elapsed == {0, 1}

\* a sink that returns to the backend with the lock still held
WCallbackHoldLock(s) ==
    /\ wk[s].pc = "cb"
    /\ lock = NoSlot
    /\ \E el \in Elapsed :
          /\ wk[s].bk = "Direct" => el > 0
          /\ recs' = Merge(recs, wk[s].id, wk[s].dl, wk[s].tot,
                           Speed(wk[s].dl, el))
    /\ lock' = s
    /\ wk' = [wk EXCEPT ![s].pc = "stream"]
    /\ UNCHANGED <<downloads, threads, cancelled, files, rd, ret, megaVars, pureVars>>

WCallback(s) ==
    /\ wk[s].pc = "cb"
    /\ lock = NoSlot
    /\ \E el \in Elapsed :
          \* direct.py:69: inside the loop the sink is called only when 0.1 s
          \* have passed, so elapsed > 0 there
          /\ wk[s].bk = "Direct" => el > 0
          /\ recs' = Merge(recs, wk[s].id, wk[s].dl, wk[s].tot,
                           Speed(wk[s].dl, el))
    /\ wk' = [wk EXCEPT ![s].pc = "stream"]
    /\ UNCHANGED <<downloads, threads, lock, cancelled, files, rd, ret, megaVars, pureVars>>

\* os.path.getsize(filepath) if os.path.exists(filepath) else 0
GetSize(p) == IF p \in DOMAIN files THEN files[p].size ELSE 0

\* the body is exhausted and the loop ends: direct.py:75-86 (final callback, success result) and
\* mega.py:227, 93-99
WLoopEnd(s) ==
    /\ wk[s].pc = "stream"
    /\ IF wk[s].bk = "Direct"
       THEN /\ lock = NoSlot
            /\ \E el \in Elapsed :
                 recs' = Merge(recs, wk[s].id, wk[s].dl, wk[s].tot,
                               Speed(wk[s].dl, el))
            /\ wk' = [wk EXCEPT ![s] = Returned(@, Success(wk[s].fname, wk[s].dl))]
       ELSE /\ recs' = recs
            /\ wk' = [wk EXCEPT ![s] =
                       Returned(@, Success(wk[s].fname,
                                           GetSize(Join(wk[s].fname))))]
    /\ UNCHANGED <<downloads, threads, lock, cancelled, files, rd, ret, megaVars, pureVars>>

\* manager.py:94-104: the update of a successful download
Complete(rs, i, res) ==
    IF i \in DOMAIN downloads
    THEN [rs EXCEPT ![downloads[i]] =
             [@ EXCEPT !.status = "completed", !.progress = Hundred,
                       !.filepath = res.filepath, !.filename = res.filename,
                       !.total = res.size, !.downloaded = res.size,
                       !.completed_at = "t"]]
    ELSE rs

\* manager.py:93-109: the worker handles the result of the backend call.  A
\* failure or an exception goes to _update_status(id, 'error', text), whose
\* two assignments are two steps inside the lock.
WResult(s) ==
    /\ wk[s].pc = "result"
    /\ lock = NoSlot
    /\ IF wk[s].res.kind = "ok"
       THEN /\ recs' = Complete(recs, wk[s].id, wk[s].res)
            /\ wk' = [wk EXCEPT ![s] = Finished(@)]
            /\ lock' = lock
       ELSE /\ recs' = WriteStatus(recs, wk[s].id, "error", wk[s].res.error)
            /\ IF Truthy(wk[s].res.error)
               THEN /\ lock' = s
                    /\ wk' = [wk EXCEPT ![s].pc = "seterr"]
               ELSE /\ lock' = lock
                    /\ wk' = [wk EXCEPT ![s] = Finished(@)]
    /\ UNCHANGED <<downloads, threads, cancelled, files, rd, ret, megaVars, pureVars>>

\* manager.py:116-117, then the lock is released and the worker returns
WSetError(s) ==
    /\ wk[s].pc = "seterr"
    /\ lock = s
    /\ recs' = WriteError(recs, wk[s].id, wk[s].res.error)
    /\ lock' = NoSlot
    /\ wk' = [wk EXCEPT ![s] = Finished(@)]
    /\ UNCHANGED <<downloads, threads, cancelled, files, rd, ret, megaVars, pureVars>>

WorkerStep(s) ==
    \/ WStart(s)
    \/ DirectCall(s)
    \/ MegaCall(s)
    \/ WRaise(s)
    \/ WOpen(s)
    \/ MegaRequestError(s)
    \/ WChunk(s)
    \/ WStreamError(s)
    \/ WCallback(s)
    \/ WLoopEnd(s)
    \/ WResult(s)
    \/ WSetError(s)

\* ------------------------------------------------------- cancel
\* manager.py:136-142; the return value is CancelResult(i)
CancelResult(i) == i \in DOMAIN downloads

\* cancel deleting the record it cancels
CancelDelete(i) ==
    /\ lock = NoSlot
    /\ recs' = IF i \in DOMAIN downloads
               THEN [recs EXCEPT ![downloads[i]] = NoRec]
               ELSE recs
    /\ downloads' = [j \in DOMAIN downloads \ {i} |-> downloads[j]]
    /\ UNCHANGED <<threads, lock, wk, cancelled, files, rd, megaVars, pureVars>>

\* the body of cancel, between acquiring and releasing the lock
CancelBody(i) ==
    /\ lock = NoSlot
    /\ recs' = IF i \in DOMAIN downloads
               THEN [recs EXCEPT ![downloads[i]].status = "cancelled"]
               ELSE recs
    /\ UNCHANGED <<downloads, threads, lock, wk, cancelled, files, rd, megaVars, pureVars>>

\* a cancel call whose caller drops the return value
Cancel(i) == CancelBody(i) /\ UNCHANGED ret

\* a cancel call whose caller keeps the return value (app.py:80-86)
CancelCall(i) == CancelBody(i) /\ ret' = <<i, CancelResult(i)>>

\* manager.py:144-148
active_count ==
    Cardinality({i \in DOMAIN downloads :
                    Rec(i).status \in {"starting", "downloading"}})

\* ------------------------------------------------------- readers
\* manager.py:126-129: self.downloads.get(download_id), the dict itself
GetStatus(i) ==
    /\ lock = NoSlot
    /\ rd' = IF i \in DOMAIN downloads
             THEN [r \in {downloads[i]} |-> recs[r]]
             ELSE [r \in {} |-> NoRec]
    /\ UNCHANGED <<downloads, recs, threads, lock, wk, cancelled, files, ret, megaVars, pureVars>>

\* manager.py:131-134: list(self.downloads.values()), a new list of the
\* same dicts
ListAll ==
    /\ lock = NoSlot
    /\ rd' = [r \in {downloads[i] : i \in DOMAIN downloads} |-> recs[r]]
    /\ UNCHANGED <<downloads, recs, threads, lock, wk, cancelled, files, ret, megaVars, pureVars>>

Next ==
    \/ \E s \in Slots, u \in Urls, i \in Ids : AddInsert(s, u, i)
    \/ \E s \in Slots : AddSpawn(s)
    \/ \E s \in Slots : WorkerStep(s)
    \/ \E i \in Ids : Cancel(i)

Spec == Init /\ [][Next]_vars

\* the program with one add_download call
FirstSlot == {s \in Slots : s = 1}

NextOne ==
    \/ \E s \in FirstSlot, u \in Urls, i \in Ids : AddInsert(s, u, i)
    \/ \E s \in FirstSlot : AddSpawn(s)
    \/ \E s \in FirstSlot : WorkerStep(s)
    \/ \E i \in Ids : Cancel(i)

\* ... and a caller of get_status / list_all
NextRead ==
    \/ NextOne
    \/ \E i \in Ids : GetStatus(i)
    \/ ListAll

SpecRead == Init /\ [][NextRead]_vars

\* the program with every cancel call made by a caller that keeps the
\* return value
NextCancel ==
    \/ \E s \in Slots, u \in Urls, i \in Ids : AddInsert(s, u, i)
    \/ \E s \in Slots : AddSpawn(s)
    \/ \E s \in Slots : WorkerStep(s)
    \/ \E i \in Ids : CancelCall(i)

SpecCancel == Init /\ [][NextCancel]_vars

\* cancel() of a backend instance (direct.py:119-121, mega.py:259-261),
\* called by a holder of the instance
BackendCancel(b) ==
    /\ cancelled' = [cancelled EXCEPT ![b] = TRUE]
    /\ UNCHANGED <<downloads, recs, threads, lock, wk, files, rd, ret,
                   megaVars, pureVars>>

\* the program with callers of the backends' cancel()
NextBackend ==
    \/ \E s \in Slots, u \in Urls, i \in Ids : AddInsert(s, u, i)
    \/ \E s \in Slots : AddSpawn(s)
    \/ \E s \in Slots : WorkerStep(s)
    \/ \E b \in Backends : BackendCancel(b)

SpecBackend == Init /\ [][NextBackend]_vars

\* the scheduler runs every started thread, and a call of add_download goes
\* on to start its thread
Fairness ==
    \A s \in Slots : WF_vars(AddSpawn(s)) /\ WF_vars(WorkerStep(s))

FairSpec == Spec /\ Fairness

FairOne == Init /\ [][NextOne]_vars /\ Fairness

\* ------------------------------------------------------- MegaDownloader
\* the frame of a call that has returned res: the locals are gone; cond is
\* the quota/limit condition that ended it, stage the stage that failed
Ended(f, res, cond, stage) ==
    [f EXCEPT !.pc = "done", !.res = res, !.cond = cond,
              !.bad = IF stage = None THEN @ ELSE @ \cup {stage},
              !.tmp = 0, !.info = NoInfo, !.fname = "", !.ino = NoSlot,
              !.dl = 0]

\* mega.py:103-107: the handler of download
OuterExcept(m) ==
    IF MentionsQuota(m) THEN Fail(QuotaText)
    ELSE Fail("Erro: " \o Text(m))

\* the quota/limit condition an exception text stands for, if any
TextCond(m) == IF MentionsQuota(m) THEN "text" ELSE None

\* mega.py:42-49: reset the flag, parse the URL
MStart(c, u) ==
    /\ mg[c].pc = "idle"
    /\ c > 1 => mg[c - 1].pc # "idle"
    /\ cancelled' = [cancelled EXCEPT !["MEGA"] = FALSE]
    /\ mg' = [mg EXCEPT ![c] =
                IF parse_url(u) = None
                THEN Ended([@ EXCEPT !.log = <<"parse">>],
                           Fail(InvalidUrlText), None, "parse")
                ELSE [@ EXCEPT !.pc = "rpc", !.log = <<"parse">>]]
    /\ UNCHANGED <<downloads, recs, threads, lock, wk, files, rd, ret,
                   seq_no, rpcs, pureVars>>

\* mega.py:128, "self.seq_no += 1": load the attribute ...
MRpcLoad(c) ==
    /\ mg[c].pc = "rpc"
    /\ mg' = [mg EXCEPT ![c] = [@ EXCEPT !.pc = "rpc_store", !.tmp = seq_no,
                                         !.log = Append(@, "rpc")]]
    /\ UNCHANGED <<downloads, recs, threads, lock, wk, cancelled, files, rd,
                   ret, seq_no, rpcs, pureVars>>

\* ... and store the sum
MRpcStore(c) ==
    /\ mg[c].pc = "rpc_store"
    /\ seq_no' = mg[c].tmp + 1
    /\ mg' = [mg EXCEPT ![c].pc = "rpc_send"]
    /\ UNCHANGED <<downloads, recs, threads, lock, wk, cancelled, files, rd,
                   ret, rpcs, pureVars>>

\* mega.py:131-144, 52-54: send the request with id=self.seq_no, read the
\* attribute again for the URL, and take the answer
MRpcSend(c, resp) ==
    /\ mg[c].pc = "rpc_send"
    /\ rpcs' = Append(rpcs, seq_no)
    /\ mg' = [mg EXCEPT ![c] =
                IF file_info_of(resp) = NoInfo
                THEN Ended([@ EXCEPT !.rpc = resp], Fail(NotFoundText),
                           IF resp.t = "int" /\ resp.v = 0 - 17
                           THEN "code17" ELSE None,
                           "rpc")
                ELSE [@ EXCEPT !.pc = "key", !.rpc = resp,
                               !.info = file_info_of(resp)]]
    /\ UNCHANGED <<downloads, recs, threads, lock, wk, cancelled, files, rd,
                   ret, seq_no, pureVars>>

\* a key stage that goes on with a key of the wrong length
MKeyIgnoreLength(c, n) ==
    /\ mg[c].pc = "key"
    /\ mg' = [mg EXCEPT ![c] =
                LET f == [@ EXCEPT !.log = Append(@, "key"), !.key = n] IN
                IF base64_to_bytes(n).raised
                THEN Ended(f, OuterExcept(Base64Message),
                           TextCond(Base64Message), "key")
                ELSE IF base64_to_bytes(n).len # 32
                THEN [f EXCEPT !.pc = "attr", !.bad = @ \cup {"key"}]
                ELSE [f EXCEPT !.pc = "attr"]]
    /\ UNCHANGED <<downloads, recs, threads, lock, wk, cancelled, files, rd,
                   ret, seq_no, rpcs, pureVars>>

\* mega.py:57-69: decode the key token, check its length, derive the key
MKey(c, n) ==
    /\ mg[c].pc = "key"
    /\ mg' = [mg EXCEPT ![c] =
                LET f == [@ EXCEPT !.log = Append(@, "key"), !.key = n] IN
                IF base64_to_bytes(n).raised
                THEN Ended(f, OuterExcept(Base64Message),
                           TextCond(Base64Message), "key")
                ELSE IF base64_to_bytes(n).len # 32
                THEN Ended(f, Fail(InvalidKeyText), None, "key")
                ELSE [f EXCEPT !.pc = "attr"]]
    /\ UNCHANGED <<downloads, recs, threads, lock, wk, cancelled, files, rd,
                   ret, seq_no, rpcs, pureVars>>

\* mega.py:72-75: decrypt the attributes; without a name the file is called
\* mega_download_<file_id>
MAttr(c) ==
    /\ mg[c].pc = "attr"
    /\ mg' = [mg EXCEPT ![c] =
                LET f == [@ EXCEPT !.log = Append(@, "attr")] IN
                IF mg[c].info.at = "missing"
                THEN Ended(f, OuterExcept(KeyErrorMessage),
                           TextCond(KeyErrorMessage), "attr")
                ELSE IF mg[c].info.at = "garbage"
                THEN [f EXCEPT !.pc = "url", !.bad = @ \cup {"attr"}]
                ELSE [f EXCEPT !.pc = "url"]]
    /\ UNCHANGED <<downloads, recs, threads, lock, wk, cancelled, files, rd,
                   ret, seq_no, rpcs, pureVars>>

\* mega.py:78-86: the download URL, the size, the target path
MUrl(c) ==
    /\ mg[c].pc = "url"
    /\ mg' = [mg EXCEPT ![c] =
                IF ~ mg[c].info.g
                THEN Ended(@, Fail(NoUrlText), "no_url", None)
                ELSE [@ EXCEPT !.pc = "req",
                               !.fname = get_unique_filepath(DOMAIN files)]]
    /\ UNCHANGED <<downloads, recs, threads, lock, wk, cancelled, files, rd,
                   ret, seq_no, rpcs, pureVars>>

\* mega.py:204-205: the body request succeeds
MRequest(c) ==
    /\ mg[c].pc = "req"
    /\ mg' = [mg EXCEPT ![c] = [@ EXCEPT !.pc = "open",
                                         !.log = Append(@, "stream")]]
    /\ UNCHANGED <<downloads, recs, threads, lock, wk, cancelled, files, rd,
                   ret, seq_no, rpcs, pureVars>>

\* mega.py:229-232: raise_for_status raises HTTPError
MRequestHttpError(c, code) ==
    /\ mg[c].pc = "req"
    /\ mg' = [mg EXCEPT ![c] =
                LET f == [@ EXCEPT !.log = Append(@, "stream")] IN
                IF code = 509
                THEN Ended(f, Fail(Http509Text), "http509", "stream")
                ELSE Ended(f, Fail("Erro HTTP: " \o ToString(code)), None,
                           "stream")]
    /\ UNCHANGED <<downloads, recs, threads, lock, wk, cancelled, files, rd,
                   ret, seq_no, rpcs, pureVars>>

\* mega.py:233-234: the body request raises another exception
MRequestError(c, m) ==
    /\ mg[c].pc = "req"
    /\ mg' = [mg EXCEPT ![c] =
                Ended([@ EXCEPT !.log = Append(@, "stream")], Fail(Text(m)),
                      TextCond(m), "stream")]
    /\ UNCHANGED <<downloads, recs, threads, lock, wk, cancelled, files, rd,
                   ret, seq_no, rpcs, pureVars>>

\* mega.py:207: open(filepath, 'wb')
MOpen(c) ==
    /\ mg[c].pc = "open"
    /\ LET p == Join(mg[c].fname)
           f == IF p \in DOMAIN files THEN [files[p] EXCEPT !.size = 0]
                ELSE [ino |-> c, size |-> 0]
       IN  /\ files' = Put(files, p, f)
           /\ mg' = [mg EXCEPT ![c].pc = "loop", ![c].ino = f.ino]
    /\ UNCHANGED <<downloads, recs, threads, lock, wk, cancelled, rd, ret,
                   seq_no, rpcs, pureVars>>

\* mega.py:208-225: one iteration of the chunk loop; the callback is
\* invoked with the bytes downloaded so far (mega.py:221-225)
MChunk(c) ==
    /\ mg[c].pc = "loop"
    /\ mg[c].dl < MaxChunks
    /\ LET p == Join(mg[c].fname) IN
       IF cancelled["MEGA"]
       THEN /\ files' = IF p \in DOMAIN files THEN Drop(files, p) ELSE files
            /\ mg' = [mg EXCEPT ![c] =
                        Ended(@, Fail(CancelText), None, "stream")]
       ELSE /\ files' = IF p \in DOMAIN files /\ files[p].ino = mg[c].ino
                        THEN [files EXCEPT ![p].size = Max(@, mg[c].dl + 1)]
                        ELSE files
            /\ mg' = [mg EXCEPT ![c].dl = @ + 1, ![c].rep = mg[c].dl + 1]
    /\ UNCHANGED <<downloads, recs, threads, lock, wk, cancelled, rd, ret,
                   seq_no, rpcs, pureVars>>

\* mega.py:233-234: the stream or the write raises inside the loop
MStreamError(c, m) ==
    /\ mg[c].pc = "loop"
    /\ mg' = [mg EXCEPT ![c] = Ended(@, Fail(Text(m)), TextCond(m), "stream")]
    /\ UNCHANGED <<downloads, recs, threads, lock, wk, cancelled, files, rd,
                   ret, seq_no, rpcs, pureVars>>

\* mega.py:227, 93-99: the loop ends and download builds the success result
MFinalize(c) ==
    /\ mg[c].pc = "loop"
    /\ mg' = [mg EXCEPT ![c] =
                Ended([@ EXCEPT !.log = Append(@, "finalize")],
                      Success(mg[c].fname, GetSize(Join(mg[c].fname))),
                      None, None)]
    /\ UNCHANGED <<downloads, recs, threads, lock, wk, cancelled, files, rd,
                   ret, seq_no, rpcs, pureVars>>

\* mega.py:259-261: cancel() of the backend instance
MBackendCancel ==
    /\ cancelled' = [cancelled EXCEPT !["MEGA"] = TRUE]
    /\ UNCHANGED <<downloads, recs, threads, lock, wk, files, rd, ret,
                   megaVars, pureVars>>

MegaStep(c) ==
    \/ \E u \in MegaUrls : MStart(c, u)
    \/ MRpcLoad(c)
    \/ MRpcStore(c)
    \/ \E resp \in RpcResponses : MRpcSend(c, resp)
    \/ \E n \in KeyTokenLens : MKey(c, n)
    \/ MAttr(c)
    \/ MUrl(c)
    \/ MRequest(c)
    \/ \E code \in HttpErrors : MRequestHttpError(c, code)
    \/ \E m \in BodyMessages : MRequestError(c, m)
    \/ MOpen(c)
    \/ MChunk(c)
    \/ \E m \in BodyMessages : MStreamError(c, m)
    \/ MFinalize(c)

\* calls of MegaDownloader.download on one instance, by concurrent threads
NextMega ==
    \/ \E c \in MegaCallIds : MegaStep(c)
    \/ MBackendCancel

SpecMega == Init /\ [][NextMega]_vars

\* ------------------------------------------------------- body decryption
\* mega.py:201-205: Counter.new / AES.new make the cipher object of the
\* call, then the body request is sent
StreamStart(c, k, body) ==
    /\ cs[c].pc = "idle"
    /\ c > 1 => cs[c - 1].pc # "idle"
    /\ cs' = [cs EXCEPT ![c] = [pc |-> "loop", key |-> k, body |-> body,
                                rest |-> body, pos |-> 0, out |-> << >>]]
    /\ UNCHANGED <<downloads, recs, threads, lock, wk, cancelled, files, rd,
                   ret, megaVars, kd, da>>

\* a loop that makes a new cipher object for every chunk
StreamChunkReset(c, n) ==
    /\ cs[c].pc = "loop"
    /\ n \in 1..Len(cs[c].rest)
    /\ cs' = [cs EXCEPT ![c] =
                [@ EXCEPT !.out = @ \o Decrypt(cs[c].key, 0,
                                               SubSeq(cs[c].rest, 1, n)),
                          !.pos = n,
                          !.rest = SubSeq(@, n + 1, Len(@))]]
    /\ UNCHANGED <<downloads, recs, threads, lock, wk, cancelled, files, rd,
                   ret, megaVars, kd, da>>

\* mega.py:208-219: iter_content yields the next n bytes of the body;
\* they are decrypted with the cipher object of the call and written
StreamChunk(c, n) ==
    /\ cs[c].pc = "loop"
    /\ n \in 1..Len(cs[c].rest)
    /\ cs' = [cs EXCEPT ![c] =
                [@ EXCEPT !.out = @ \o Decrypt(cs[c].key, cs[c].pos,
                                               SubSeq(cs[c].rest, 1, n)),
                          !.pos = @ + n,
                          !.rest = SubSeq(@, n + 1, Len(@))]]
    /\ UNCHANGED <<downloads, recs, threads, lock, wk, cancelled, files, rd,
                   ret, megaVars, kd, da>>

\* mega.py:227: the body is exhausted
StreamEnd(c) ==
    /\ cs[c].pc = "loop"
    /\ cs[c].rest = << >>
    /\ cs' = [cs EXCEPT ![c].pc = "done"]
    /\ UNCHANGED <<downloads, recs, threads, lock, wk, cancelled, files, rd,
                   ret, megaVars, kd, da>>

NextStream ==
    \/ \E c \in StreamCalls, k \in CipherKeys, body \in Bodies :
          StreamStart(c, k, body)
    \/ \E c \in StreamCalls, n \in 1..MaxBody : StreamChunk(c, n)
    \/ \E c \in StreamCalls : StreamEnd(c)

SpecStream == Init /\ [][NextStream]_vars

\* ------------------------------------------------------- key derivation
\* mega.py:61-69 and 201: the cipher key, the iv and the counter
KeyDerive ==
    /\ kd.pc = "raw"
    /\ kd' = [pc |-> "derived", key |-> kd.key,
              key_array |-> unpack_words(kd.key),
              aes_key |-> aes_key_of(kd.key), iv |-> iv_of(kd.key),
              block |-> counter_block(from_bytes(iv_of(kd.key)))]
    /\ UNCHANGED <<downloads, recs, threads, lock, wk, cancelled, files, rd,
                   ret, megaVars, cs, da>>

InitKey ==
    /\ InitProgram
    /\ cs = [c \in StreamCalls |-> IdleStream]
    /\ kd \in {[pc |-> "raw", key |-> k] : k \in RawKeys}
    /\ da = NoAttr

SpecKey == InitKey /\ [][KeyDerive]_vars

\* ------------------------------------------------------- file attributes
\* mega.py:72-75: filename = self._decrypt_attr(attr_data, aes_key)
DecryptAttr ==
    /\ da.pc = "plain"
    /\ LET r == decrypt_attr(Plaintext(da.tag, da.n, da.tail, da.pad)) IN
       da' = [da EXCEPT !.pc = "named", !.name = r, !.filename = filename_of(r)]
    /\ UNCHANGED <<downloads, recs, threads, lock, wk, cancelled, files, rd,
                   ret, megaVars, cs, kd>>

InitAttr ==
    /\ InitProgram
    /\ cs = [c \in StreamCalls |-> IdleStream]
    /\ kd = NoKey
    /\ da \in {[pc |-> "plain", tag |-> tag, n |-> n, tail |-> tail,
                 pad |-> pad, name |-> NoFilename, filename |-> << >>] :
                   tag \in {"MEGA", "AGEM"},
                   n \in SeqsUpTo(NameChars, MaxName),
                   tail \in SeqsUpTo(NameChars, MaxTail), pad \in 0..1}

SpecAttr == InitAttr /\ [][DecryptAttr]_vars

\* ======================================================= claims
Registered(s) == wk[s].id \in DOMAIN downloads

\* the worker of slot s is inside the chunk loop of its backend
InLoop(s) == wk[s].pc \in {"stream", "cb"}

\* the paths get_unique_filepath can return
Paths == {Join(BaseName \o BaseExt)} \cup {Join(Numbered(k)) : k \in 1..MaxAdds}

\* the worker of slot s holds its target file open
FileOpen(s) == wk[s].pc \in {"stream", "cb"}

\* C1: once the status of a record is completed, error or cancelled, no
\* later step changes it.
C1_TerminalIsFinal ==
    [][\A s \in Slots :
          recs[s].status \in Terminal => recs'[s].status = recs[s].status]_vars

\* C2: when cancel(id) returns true while a worker of id is transferring,
\* the stop flag of that worker's backend is raised.
C2_CancelRaisesFlag ==
    [][\A i \in Ids, s \in Slots :
          (/\ Cancel(i)
           /\ CancelResult(i)
           /\ wk[s].id = i
           /\ InLoop(s))
          => cancelled'[wk[s].bk]]_vars

\* C3: a record cancelled while its worker is inside the chunk loop ends
\* with no file at the target path and with status cancelled.  (cancel on
\* a record already cancelled changes nothing, so every state with the
\* worker in the loop and the record cancelled is the state right after a
\* cancel issued inside the loop.)
C3_CancelMidTransfer ==
    \A s \in Slots, p \in Paths :
       [](   (InLoop(s) /\ Join(wk[s].fname) = p
                /\ Registered(s) /\ Rec(wk[s].id).status = "cancelled")
          => <>[](/\ p \notin DOMAIN files
                  /\ Registered(s)
                  /\ Rec(wk[s].id).status = "cancelled"))

\* C4: a record handed out by get_status or list_all keeps the values it
\* had when the call returned, and is never seen between the two
\* assignments of one update.
C4_SnapshotConsistent ==
    \A r \in DOMAIN rd :
       /\ recs[r] = rd[r]
       /\ ~ \E s \in Slots :
              wk[s].pc = "seterr" /\ Registered(s) /\ downloads[wk[s].id] = r

\* C5: no two workers ever have the same destination path open.
C5_DistinctPaths ==
    \A s, t \in Slots :
       (s # t /\ FileOpen(s) /\ FileOpen(t)) => wk[s].fname # wk[t].fname

\* C6: the ids returned by any add_download calls are pairwise distinct.
C6_DistinctIds ==
    \A s, t \in Slots :
       (s # t /\ wk[s].pc # "idle" /\ wk[t].pc # "idle") => wk[s].id # wk[t].id

\* C9: outside an update in progress, the error field of a record is
\* non-null exactly when its status is error.
C9_ErrorIffStatusError ==
    lock = NoSlot =>
       \A i \in DOMAIN downloads :
          (Rec(i).error # None) <=> (Rec(i).status = "error")

\* C7: under fair scheduling, from some point on every record of the
\* registry has a status in {completed, error, cancelled} and
\* active_count() is 0 (records are never removed, so every submitted
\* record reaches a terminal status; the add_download calls are finitely
\* many, so the point lies after the last of them).
AllTerminal == \A i \in DOMAIN downloads : Rec(i).status \in Terminal

C7_AllTerminate == <>[](AllTerminal /\ active_count = 0)

\* a registry with all its workers returned and nothing active
C7_Witness ==
    /\ \A s \in Slots : wk[s].pc = "done"
    /\ Cardinality(DOMAIN downloads) = NumIds
    /\ active_count = 0

\* C8: a worker whose backend call returned a failure or raised sets the
\* status of its record to error and returns; the step touches no other
\* worker and leaves the registry and the thread table as they were.
Faulted(s) == wk[s].pc = "result" /\ wk[s].res.kind \in {"fail", "raise"}

C8_FaultsContained ==
    [][\A s \in Slots :
          /\ (Faulted(s) /\ wk'[s] # wk[s])
                => /\ wk'[s].pc \in {"seterr", "done"}
                   /\ Rec(wk[s].id).status' = "error"
                   /\ \A t \in Slots \ {s} : wk'[t] = wk[t]
                   /\ downloads' = downloads
                   /\ threads' = threads
          /\ (wk[s].pc = "seterr" /\ wk'[s] # wk[s])
                => /\ wk'[s].pc = "done"
                   /\ lock' = NoSlot
                   /\ Rec(wk[s].id).status' = Rec(wk[s].id).status
                   /\ \A t \in Slots \ {s} : wk'[t] = wk[t]]_vars

\* a worker has caught an exception of the backend call and has set error,
\* while another worker is still running
C8_Witness ==
    \E s, t \in Slots :
       /\ wk[s].pc = "seterr"
       /\ wk[s].res.kind = "raise"
       /\ Rec(wk[s].id).status = "error"
       /\ InLoop(t)

\* C10: add_download stores the record, with status starting, under its
\* id before the worker thread is started; it starts that one thread and
\* returns without any step of the transfer; no id ever leaves the
\* registry; and the first update of the worker finds a record under its id.
C10_RegisteredBeforeStart ==
    [][/\ \A i \in DOMAIN downloads : i \in DOMAIN downloads'
       /\ \A s \in Slots :
             /\ (wk[s].pc = "idle" /\ wk'[s] # wk[s])
                   => /\ wk'[s].pc = "spawn"
                      /\ wk'[s].id \in DOMAIN downloads'
                      /\ downloads'[wk'[s].id] = s
                      /\ recs'[s].status = "starting"
                      /\ threads' = threads
             /\ (wk[s].pc = "spawn" /\ wk'[s] # wk[s])
                   => /\ Registered(s)
                      /\ wk'[s].pc = "start"
                      /\ threads' = Put(threads, wk[s].id, s)
                      /\ recs' = recs
                      /\ files' = files
             /\ (wk[s].pc = "start" /\ wk'[s] # wk[s])
                   => /\ Registered(s)
                      /\ threads[wk[s].id] \in Slots
                      /\ Rec(wk[s].id).status' = "downloading"]_vars

\* add_download has returned the id of a record that is still starting:
\* the worker has been started and has not made a step
C10_Witness ==
    \E s \in Slots :
       /\ wk[s].pc = "start"
       /\ Registered(s)
       /\ downloads[wk[s].id] = s
       /\ recs[s].status = "starting"

\* C11: every add_download call is bound to the first backend of
\* self.downloaders, in registration order, whose can_handle accepts the
\* URL, and to the Direct backend when none accepts it; the host field of
\* the record it created is the host name of that backend.
Accepting(u) == {k \in 1..Len(downloaders) : can_handle(downloaders[k], u)}

C11_BackendSelection ==
    \A s \in Slots :
       wk[s].pc # "idle" =>
          /\ wk[s].bk \in Backends
          /\ \A k \in Accepting(wk[s].url) :
                (\A j \in Accepting(wk[s].url) : k <= j)
                   => wk[s].bk = downloaders[k]
          /\ Accepting(wk[s].url) = {} => wk[s].bk = "Direct"
          /\ recs[s].url = wk[s].url
          /\ recs[s].host = HOST_NAME(wk[s].bk)

\* one call with a URL both backends accept, bound to MEGA, and one with a
\* URL no backend accepts, bound to Direct
C11_Witness ==
    \E s, t \in Slots :
       /\ wk[s].url = "mega" /\ Cardinality(Accepting("mega")) = 2
       /\ wk[s].bk = "MEGA" /\ recs[s].host = "MEGA.nz"
       /\ wk[t].url = "other" /\ Accepting("other") = {}
       /\ wk[t].bk = "Direct" /\ recs[t].host = "Direct Link"

\* C12: cancel(id) returns true exactly when id is in the registry; when
\* it returns true it sets the status of the record under id to cancelled
\* and changes no other field and no other record; when it returns false
\* it changes nothing; and no step of any operation takes an id out of the
\* registry.  (in SpecCancel the cancel calls are the steps that leave
\* every worker where it was.)
C12_CancelFrame ==
    [][/\ \A i \in DOMAIN downloads : i \in DOMAIN downloads'
       /\ wk' = wk =>
             \E i \in Ids :
                /\ ret' = <<i, i \in DOMAIN downloads>>
                /\ downloads' = downloads
                /\ threads' = threads
                /\ i \notin DOMAIN downloads => recs' = recs
                /\ i \in DOMAIN downloads =>
                      \A r \in Slots :
                         recs'[r] = IF r = downloads[i]
                                    THEN [recs[r] EXCEPT !.status = "cancelled"]
                                    ELSE recs[r]]_vars

\* cancel has returned true on a record that was completed, with every id
\* in use
C12_Witness ==
    /\ ret # None
    /\ ret[2]
    /\ Rec(ret[1]).status = "cancelled"
    /\ Rec(ret[1]).progress = Hundred
    /\ Rec(ret[1]).filepath # ""
    /\ Cardinality(DOMAIN downloads) = NumIds

\* C13: a thread that holds the manager's lock is not inside a backend
\* performing a network request, a file write or a file delete, and is not
\* at a point where it acquires the lock.
InBackendIO(s) == wk[s].pc \in {"call", "open", "stream"}

\* the next statement of the thread of slot s is a "with self.lock:"
WantsLock(s) ==
    \/ wk[s].pc \in {"idle", "start", "cb", "result"}
    \/ wk[s].pc = "stream" /\ wk[s].bk = "Direct"

C13_LockDiscipline ==
    \A s \in Slots :
       lock = s => ~ InBackendIO(s) /\ ~ WantsLock(s)

\* one worker holds the lock inside _update_status while the other is in
\* the chunk loop of its backend
C13_Witness ==
    \E s, t \in Slots :
       /\ lock = s
       /\ wk[s].pc = "seterr"
       /\ wk[t].pc = "stream"
       /\ WantsLock(t)

\* C14: the progress field of every record lies between 0 and 100, and is
\* 0 whenever the total field is 0.
C14_ProgressRange ==
    \A s \in Slots :
       recs[s] # NoRec =>
          /\ 0 <= recs[s].progress
          /\ recs[s].progress <= Hundred
          /\ recs[s].total = 0 => recs[s].progress = 0

\* C15: a record that is not cancelled goes from starting to downloading
\* and from downloading to completed, and to neither from any other
\* status; whenever its status is completed, progress is 100, downloaded
\* and total are equal (and are the size the backend returned, at the step
\* that completes it), filepath is non-empty and completed_at is set;
\* whenever its status is starting or downloading, filepath is empty and
\* completed_at is null.  (stated on the state each step leads to; the
\* initial state has no record.)
CompletedFields(r) ==
    /\ r.progress = Hundred
    /\ r.downloaded = r.total
    /\ r.filepath # ""
    /\ r.completed_at # None

C15_Lifecycle ==
    [][\A s \in Slots :
          /\ recs'[s].status = "completed" => CompletedFields(recs'[s])
          /\ recs'[s].status \in {"starting", "downloading"}
                => recs'[s].filepath = "" /\ recs'[s].completed_at = None
          /\ (/\ recs[s].status \notin {None, "cancelled"}
              /\ recs'[s].status # recs[s].status
              /\ recs'[s].status \in {"downloading", "completed"})
                => <<recs[s].status, recs'[s].status>>
                      \in {<<"starting", "downloading">>,
                           <<"downloading", "completed">>}
          /\ (/\ wk[s].pc = "result" /\ wk[s].res.kind = "ok"
              /\ wk'[s] # wk[s] /\ Registered(s))
                => /\ Rec(wk[s].id)'.status = "completed"
                   /\ Rec(wk[s].id)'.total = wk[s].res.size]_vars

\* C16: a call of the progress sink by the worker of download id changes
\* only the fields downloaded, total, progress and speed of the record
\* under id, and no other record; and no step changes the id, url, host
\* or started_at of a record.
SinkCall(s) ==
    \/ wk[s].pc = "cb" /\ wk'[s].pc = "stream"
    \/ /\ wk[s].pc = "stream" /\ wk[s].bk = "Direct"
       /\ wk'[s].pc = "result" /\ wk'[s].res.kind = "ok"

SinkFields(r, q) ==
    [r EXCEPT !.downloaded = q.downloaded, !.total = q.total,
              !.progress = q.progress, !.speed = q.speed]

C16_SinkFrame ==
    [][/\ \A s \in Slots :
             SinkCall(s) =>
                /\ downloads' = downloads
                /\ \A r \in Slots :
                      IF Registered(s) /\ r = downloads[wk[s].id]
                      THEN SinkFields(recs'[r], recs[r]) = recs[r]
                      ELSE recs'[r] = recs[r]
       /\ \A r \in Slots :
             recs[r] # NoRec =>
                /\ recs'[r].id = recs[r].id
                /\ recs'[r].url = recs[r].url
                /\ recs'[r].host = recs[r].host
                /\ recs'[r].started_at = recs[r].started_at]_vars

\* the sink has written the byte count of a worker in the chunk loop into a
\* record that stays cancelled
C16_Witness ==
    \E s \in Slots :
       /\ wk[s].pc = "stream"
       /\ wk[s].dl > 0
       /\ Registered(s)
       /\ Rec(wk[s].id).downloaded = wk[s].dl
       /\ Rec(wk[s].id).status = "cancelled"

\* C17: every RPC of the instance carries a sequence number greater than
\* that of every RPC the instance sent before it, also with several
\* download calls running on the instance at once.
C17_SeqStrictlyIncreasing ==
    \A j, k \in DOMAIN rpcs : j < k => rpcs[j] < rpcs[k]

\* the stages a call has entered are the first stages of Stages, each once
InOrder(c) ==
    /\ Len(mg[c].log) <= Len(Stages)
    /\ \A k \in DOMAIN mg[c].log : mg[c].log[k] = Stages[k]

\* the failed stage is the last one entered and the call has returned a
\* failure result
EndsCall(c, k) ==
    /\ k = Len(mg[c].log)
    /\ mg[c].pc = "done"
    /\ mg[c].res.kind = "fail"

\* every file of the folder was created by a call that entered the
\* body-streaming stage
FilesFromStreaming ==
    \A p \in DOMAIN files :
       \E k \in DOMAIN mg[files[p].ino].log :
          mg[files[p].ino].log[k] = "stream"

\* the attribute blob of call c decrypted to no name
NoName(c) == mg[c].rpc.t = "obj" /\ mg[c].rpc.at = "garbage"

\* C18 as stated: within one download call the stages run at most once
\* each and in the order of Stages; when a stage fails no later stage runs
\* and the call returns a failure result; and no file is created unless
\* the body-streaming stage was reached.
C18_StagesShortCircuit ==
    /\ FilesFromStreaming
    /\ \A c \in MegaCallIds :
          /\ InOrder(c)
          /\ \A k \in DOMAIN mg[c].log :
                mg[c].log[k] \in mg[c].bad => EndsCall(c, k)

\* C18, amended: as above, except that attribute decryption yielding no
\* name does not end the call: download goes on with the name
\* mega_download_<file_id>.
C18_StagesShortCircuitButName ==
    /\ FilesFromStreaming
    /\ \A c \in MegaCallIds :
          /\ InOrder(c)
          /\ \A k \in DOMAIN mg[c].log :
                (mg[c].log[k] \in mg[c].bad
                   /\ ~ (mg[c].log[k] = "attr" /\ NoName(c)))
                      => EndsCall(c, k)

\* one call stopped at the key stage, the other ran all six stages after
\* its attributes gave no name, and left a file
C18_Witness ==
    \E c, d \in MegaCallIds :
       /\ mg[c].pc = "done"
       /\ mg[c].log = <<"parse", "rpc", "key">>
       /\ mg[c].bad = {"key"}
       /\ mg[d].log = Stages
       /\ mg[d].bad = {"attr"}
       /\ mg[d].res.kind = "ok"
       /\ files # << >>

\* the RPC of call c was answered with a list whose first element is a
\* negative integer
HostRejected(c) ==
    mg[c].pc = "done" /\ mg[c].rpc.t = "int" /\ mg[c].rpc.v < 0

\* the RPC request of call c failed: timeout, connection error, unparsable
\* or empty response
RpcRequestFailed(c) == mg[c].pc = "done" /\ mg[c].rpc.t \in {"exc", "empty"}

\* C19: a call whose RPC the host answered with a negative integer fails
\* with an outcome different from that of a call whose RPC request failed.
C19_HostRejectedDistinct ==
    \A c, d \in MegaCallIds :
       (HostRejected(c) /\ RpcRequestFailed(d))
          => mg[c].res.kind = "fail" /\ mg[c].res # mg[d].res

\* the outcomes of a body request or stream that fails with a text that
\* mentions neither quota nor limit
NetworkFailures == {Fail(Text(m)) : m \in {n \in BodyMessages : ~ MentionsQuota(n)}}

\* C20: every call ended by a quota/limit condition (code -17 in the RPC
\* response, metadata without download URL, HTTP 509 on the body request,
\* a failure whose text mentions quota or limit) has one and the same
\* failure outcome, which is neither the not-found outcome nor a network
\* failure outcome.
C20_OneTransferLimitOutcome ==
    \A c, d \in MegaCallIds :
       (mg[c].pc = "done" /\ mg[c].cond # None)
          => /\ mg[c].res.kind = "fail"
             /\ mg[c].res # Fail(NotFoundText)
             /\ mg[c].res \notin NetworkFailures
             /\ (mg[d].pc = "done" /\ mg[d].cond # None)
                   => mg[d].res = mg[c].res

\* the key stage of call c has read a token that does not decode to
\* exactly 32 bytes
InvalidKey(c) ==
    /\ mg[c].key # 0
    /\ \/ mg[c].key % 4 = 1
       \/ base64_to_bytes(mg[c].key).len # 32

\* C21: a call whose key token does not decode to exactly 32 bytes, tokens
\* that cannot be decoded at all included, has ended with the invalid-key
\* failure and has created no file.
C21_InvalidKeyOutcome ==
    \A c \in MegaCallIds :
       InvalidKey(c) =>
          /\ mg[c].pc = "done"
          /\ mg[c].res = Fail(InvalidKeyText)
          /\ \A p \in DOMAIN files : files[p].ino # c

\* C22: for every body and every split of it into chunks, the bytes a call
\* has written are the decryption, in one piece from position 0 and with
\* the key of that call, of the part of the body received so far: the
\* whole body once the loop has ended.
C22_ChunkIndependence ==
    \A c \in StreamCalls :
       /\ cs[c].out \o Decrypt(cs[c].key, Len(cs[c].out), cs[c].rest)
             = Decrypt(cs[c].key, 0, cs[c].body)
       /\ cs[c].pc = "done" => cs[c].out = Decrypt(cs[c].key, 0, cs[c].body)

\* one call has written a body of MaxBody bytes while another, with a
\* different key, is between two chunks of its body
C22_Witness ==
    \E c, d \in StreamCalls :
       /\ cs[c].pc = "done" /\ cs[d].pc = "loop"
       /\ cs[c].key # cs[d].key
       /\ Len(cs[c].body) = MaxBody
       /\ cs[d].pos > 0 /\ cs[d].rest # << >>

\* C23: for every 32-byte raw key, byte i of the derived cipher key is byte
\* i of the raw key xor byte i + 16 (the big-endian packing of w0 xor w4,
\* ..., w3 xor w7); the counter block is bytes 17..24 of the raw key (the
\* packing of w4, w5) followed by 8 zero bytes; and every word read and
\* every byte derived stays within its width.
C23_KeyDerivation ==
    kd.pc = "derived" =>
       /\ Len(kd.key) = 32
       /\ Len(kd.aes_key) = 16
       /\ \A i \in 1..16 :
             kd.aes_key[i] = XorBits(kd.key[i], kd.key[i + 16], 8)
       /\ kd.iv = kd.block
       /\ Len(kd.block) = 16
       /\ \A i \in 1..8 : kd.block[i] = kd.key[16 + i]
       /\ \A i \in 9..16 : kd.block[i] = 0
       /\ \A j \in 1..8 :
             /\ kd.key_array[j].hi \in 0..65535
             /\ kd.key_array[j].lo \in 0..65535
       /\ \A i \in 1..16 : kd.aes_key[i] \in 0..255

\* a key whose words differ in every position has been derived
C23_Witness ==
    /\ kd.pc = "derived"
    /\ SubSeq(kd.key, 1, 4) = <<1, 2, 3, 4>>
    /\ SubSeq(kd.key, 17, 20) = <<255, 255, 255, 255>>
    /\ SubSeq(kd.aes_key, 1, 4) = <<254, 253, 252, 251>>
    /\ SubSeq(kd.key, 5, 8) = <<0, 0, 0, 0>>

C25_FinalProgressReported ==
    \A c \in MegaCallIds :
       (mg[c].pc = "done" /\ mg[c].res.kind = "ok") =>
          /\ mg[c].rep # NeverReported
          /\ mg[c].rep = mg[c].res.size

C27_AttrName ==
    da.pc = "named" =>
       IF da.tag = "MEGA"
       THEN da.name = [found |-> TRUE, n |-> da.n]
       ELSE da.name = NoFilename /\ da.filename = <<"mega_download_", "id">>

\* C28: while a transfer is in the chunk loop of a backend instance whose
\* flag is raised, and until that transfer leaves the loop, the flag stays
\* raised, whatever the other callers of the instance do.
C28_StopRequestKept ==
    [][\A s \in Slots :
         (InLoop(s) /\ cancelled[wk[s].bk] /\ wk'[s].pc \in {"stream", "cb"})
            => cancelled'[wk[s].bk]]_vars

\* C29: when a backend download returns a failure result other than the
\* cancelled one, the file the call opened is not at its target path.
C29_NoPartialFileOnFailure ==
    [][\A s \in Slots :
         (/\ wk[s].pc \in {"call", "open", "stream", "cb"}
          /\ wk'[s].pc = "result"
          /\ wk'[s].res.kind = "fail"
          /\ wk'[s].res # Fail(CancelText)) =>
            ~ (/\ Join(wk[s].fname) \in DOMAIN files'
               /\ files'[Join(wk[s].fname)].ino = wk[s].ino)]_vars

\* C30: whenever active_count() is 0, no worker is inside the download call
\* of a backend, and every registered record of a worker with a status in
\* {completed, error, cancelled} belongs to a worker that has returned from
\* that call.
C30_IdleMeansNoTransfer ==
    active_count = 0 =>
       \A s \in Slots :
          /\ ~ InBackendIO(s)
          /\ (Registered(s) /\ Rec(wk[s].id).status \in Terminal)
                => wk[s].pc \in {"result", "seterr", "done"}

====
